---- MODULE Spec2Model ----
(***************************************************************************)
(* The referral validation and reward settlement core of the Cash Points   *)
(* bot (src/bot.py, class CashPoinntBot): the User, Referral and Earnings  *)
(* collections, process_referral ("open"), verify_group_join_and_reward    *)
(* ("verifyAndSettle"), and the checks they call.                          *)
(*                                                                         *)
(* Time is counted in whole hours.  The membership oracle is the variable  *)
(* member; a query answers with its value at the moment of the query.      *)
(* Spec runs every call from start to end on its own; SpecConc lets verify  *)
(* calls interleave where the code awaits and SpecOpen does so for open    *)
(* calls; SpecFail lets a membership query or a ledger operation of a call *)
(* fail; SpecStart runs whole start events; SpecChecks applies the checks  *)
(* and open to every ledger state of one candidate; SpecCredit interleaves *)
(* the verify calls of two candidates of one referrer; SpecUsers lets      *)
(* start events overlap; SpecOffline runs a bot without a database handle. *)
(* The referralCodes collection (usage counters, src/bot.py 735-751) is    *)
(* not part of the ledgers and is left out: its update is wrapped in its   *)
(* own try/except and never changes the control flow of the settlement.    *)
(***************************************************************************)
EXTENDS Integers, Sequences, FiniteSets, Bags, TLC

\* ------------------------------------------------------------ constants

REFERRAL_REWARD == 2
HOUR == 1
DAY == 24
WEEK == 168

\* ------------------------------------------------------------ bounds

\* Largest rejoin_count a repeated open may start from.
MaxRejoin == 2
\* The clock is observed hour by hour up to MaxHours, and once more than a day
\* after it started.
MaxHours == 2

Accts == {1, 2, 3}
\* The open calls issued: account 3 is the candidate two referrers compete for,
\* and every account may try to refer itself.
OpenPairs == {<<1, 3>>, <<2, 3>>} \cup {<<a, a>> : a \in Accts}
\* The open calls issued while verify calls are handled concurrently.
ConcPairs == {<<1, 3>>}
Candidates == {3}
Slots == {1, 2}

\* Accounts that send a start event, and so get a User record: referrer 2 is
\* known only through its referral code.
StartAccts == {1, 3}

TimePoints == (0..MaxHours) \cup {DAY + 1}

None == -1

VARIABLES
    now,            \* get_current_time()
    member,         \* the membership oracle's ground truth, per candidate
    users,          \* collection 'users': per telegram_id, its documents in id order
    referrals,      \* collection 'referrals': per referred_id, its documents in id order
    earnings,       \* collection 'earnings': a bag of documents
    result,         \* what the call made by the latest step returned ("none": no call)
    rejectedOther,  \* history: <<referrer, candidate>> pairs turned away by the third guard
    vcalls          \* verify_group_join_and_reward calls in flight (concurrent handling)

vars == <<now, member, users, referrals, earnings, result, rejectedOther, vcalls>>

\* The three ledgers as one value, for the operators that read and write them.
DB == [users |-> users, referrals |-> referrals, earnings |-> earnings]

\* ------------------------------------------------------------ helpers

\* Every stored timestamp comes from get_current_time() and is an instant in
\* UTC; attaching the UTC zone to a naive one does not move the instant.
ensure_timezone_aware(dt) == IF dt = None THEN None ELSE dt

\* query.limit(1): the first matching document in id order (0: none), given
\* the positions of the matching documents.
FirstIdx(matching) ==
    IF matching = {} THEN 0
    ELSE CHOOSE i \in matching : \A j \in matching : i <= j

IdxOfId(docs, id) == FirstIdx({i \in 1..Len(docs) : docs[i].id = id})

\* collection.add(): the new document's id is random, so it may sort anywhere.
InsertAt(docs, pos, d) ==
    SubSeq(docs, 1, pos - 1) \o <<d>> \o SubSeq(docs, pos, Len(docs))

RefId(c, id) == <<c, id>>

\* check_group_membership: the oracle's answer; a failed query answers FALSE.
check_group_membership(answer) == answer

\* ------------------------------------------------------------ checks

\* A check that does not look at rejoin_count.
check_user_was_existing_memberIgnoresCount(db, c, m, t) ==
    IF ~check_group_membership(m) THEN FALSE
    ELSE LET prev == db.referrals[c]
             udocs == db.users[c]
         IN  \/ Len(prev) > 0 /\ t - prev[1].created_at > HOUR
             \/ Len(udocs) > 0 /\ t - udocs[1].created_at > HOUR

\* A check whose one-hour thresholds are not strict.
check_user_was_existing_memberAtLeast(db, c, m, t) ==
    IF ~check_group_membership(m) THEN FALSE
    ELSE LET prev == db.referrals[c]
             udocs == db.users[c]
             byUser == Len(udocs) > 0 /\ t - udocs[1].created_at >= HOUR
         IN  IF Len(prev) > 0
             THEN IF prev[1].rejoin_count > 0 THEN TRUE
                  ELSE IF t - prev[1].created_at >= HOUR THEN TRUE
                  ELSE byUser
             ELSE byUser

\* Lines 556-614, with m the oracle's answer to the query of line 560.
check_user_was_existing_member(db, c, m, t) ==
    IF ~check_group_membership(m) THEN FALSE
    ELSE LET prev == db.referrals[c]
             udocs == db.users[c]
             byUser ==
                 /\ Len(udocs) > 0
                 /\ udocs[1].created_at # None
                 /\ t - ensure_timezone_aware(udocs[1].created_at) > HOUR
         IN  IF Len(prev) > 0
             THEN IF prev[1].rejoin_count > 0 THEN TRUE
                  ELSE IF /\ prev[1].created_at # None
                          /\ t - ensure_timezone_aware(prev[1].created_at) > HOUR
                       THEN TRUE
                       ELSE byUser
             ELSE byUser

\* An abuse check in which the second tier rejects as well.
check_referral_abuseSecondTierBlocks(db, r, c, t) ==
    LET rdocs == db.users[r]
        cdocs == db.users[c]
    IN  /\ Len(rdocs) > 0
        /\ Len(cdocs) > 0
        /\ \/ /\ t - rdocs[1].created_at > DAY
              /\ t - cdocs[1].created_at < HOUR
           \/ /\ t - rdocs[1].created_at > WEEK
              /\ t - cdocs[1].created_at < DAY

\* The second tier (referrer older than 7 days, candidate younger than 24 hours,
\* lines 545-548) only writes a log line and is not part of the value returned.
check_referral_abuse(db, r, c, t) ==
    LET rdocs == db.users[r]
        cdocs == db.users[c]
    IN  IF Len(rdocs) = 0 THEN FALSE
        ELSE IF Len(cdocs) = 0 THEN FALSE
        ELSE /\ rdocs[1].created_at # None
             /\ cdocs[1].created_at # None
             /\ t - ensure_timezone_aware(rdocs[1].created_at) > DAY
             /\ t - ensure_timezone_aware(cdocs[1].created_at) < HOUR

\* A detection that ends the call only when it records the rejoin of a verified
\* Referral.
detect_rejoin_attemptVerifiedOnly(db, c, m, t) ==
    LET prev == db.referrals[c] IN
    IF /\ check_user_was_existing_member(db, c, m, t)
       /\ Len(prev) > 0
       /\ prev[1].status = "verified"
    THEN [db |-> [db EXCEPT !.referrals[c][1] =
                     [@ EXCEPT !.rejoin_count = @ + 1,
                               !.last_rejoin_date = t,
                               !.status = "rejoined"]],
          ret |-> TRUE]
    ELSE [db |-> db, ret |-> FALSE]

\* A detection that reports the rejoin without recording it.
detect_rejoin_attemptNoUpdate(db, c, m, t) ==
    [db |-> db, ret |-> check_user_was_existing_member(db, c, m, t)]

\* A detection that records the rejoin of a verified Referral and then reports
\* no rejoin.
detect_rejoin_attemptSilent(db, c, m, t) ==
    IF check_user_was_existing_member(db, c, m, t)
    THEN LET prev == db.referrals[c] IN
         IF Len(prev) > 0 /\ prev[1].status = "verified"
         THEN [db |-> [db EXCEPT !.referrals[c][1] =
                          [@ EXCEPT !.rejoin_count = @ + 1,
                                    !.last_rejoin_date = t,
                                    !.status = "rejoined"]],
               ret |-> FALSE]
         ELSE [db |-> db, ret |-> TRUE]
    ELSE [db |-> db, ret |-> FALSE]

\* A detection that marks the candidate's Referral as rejoined whatever its
\* status.
detect_rejoin_attemptAnyStatus(db, c, m, t) ==
    IF check_user_was_existing_member(db, c, m, t)
    THEN LET prev == db.referrals[c] IN
         IF Len(prev) > 0
         THEN [db |-> [db EXCEPT !.referrals[c][1] =
                          [@ EXCEPT !.rejoin_count = @ + 1,
                                    !.last_rejoin_date = t,
                                    !.status = "rejoined"]],
               ret |-> TRUE]
         ELSE [db |-> db, ret |-> TRUE]
    ELSE [db |-> db, ret |-> FALSE]

\* [db, ret]: the ledgers after the call and the value returned.
detect_rejoin_attempt(db, c, m, t) ==
    IF check_user_was_existing_member(db, c, m, t)
    THEN LET prev == db.referrals[c] IN
         IF Len(prev) > 0 /\ prev[1].status = "verified"
         THEN [db |-> [db EXCEPT !.referrals[c][1] =
                          [@ EXCEPT !.rejoin_count = @ + 1,
                                    !.last_rejoin_date = t,
                                    !.status = "rejoined"]],
               ret |-> TRUE]
         ELSE [db |-> db, ret |-> TRUE]
    ELSE [db |-> db, ret |-> FALSE]

\* ------------------------------------------------------------ open

\* A new Referral that already counts one rejoin.
NewReferralCounted(r, c, id, t) ==
    [id |-> id, referrer_id |-> r, referred_id |-> c,
     status |-> "pending_group_join", created_at |-> t,
     group_join_verified |-> FALSE, rejoin_count |-> 1,
     reward_given |-> FALSE, last_rejoin_date |-> None]

\* referral_data (lines 481-490); id is the document's id.
NewReferral(r, c, id, t) ==
    [id |-> id, referrer_id |-> r, referred_id |-> c,
     status |-> "pending_group_join", created_at |-> t,
     group_join_verified |-> FALSE, rejoin_count |-> 0,
     reward_given |-> FALSE, last_rejoin_date |-> None]

\* A first guard that lets everything through.
IsSelfReferralNever(r, c) == FALSE

\* The first guard: referrer_id == referred_id.
IsSelfReferral(r, c) == r = c

\* A duplicate update that forgets the stamp.
DuplicateUpdateNoStamp(row, t) == [row EXCEPT !.rejoin_count = @ + 1]

\* The second guard's update of the existing Referral of the pair.
DuplicateUpdate(row, t) ==
    [row EXCEPT !.rejoin_count = @ + 1, !.last_rejoin_date = t]

\* A third guard that never fires.
ReferredByOtherNever(docs) == FALSE

\* A third guard that only counts Referrals still pending.
ReferredByOtherPendingOnly(docs) ==
    \E i \in 1..Len(docs) : docs[i].status = "pending_group_join"

\* The third guard: any Referral exists for the candidate.
ReferredByOther(docs) == Len(docs) > 0

\* A sixth guard that rejects a User record more than one day old.
StaleCandidateAfterDay(db, c, t) ==
    LET udocs == db.users[c] IN
    /\ Len(udocs) > 0
    /\ udocs[1].created_at # None
    /\ t - ensure_timezone_aware(udocs[1].created_at) > DAY

\* The sixth guard: the candidate's User record is more than one hour old.
StaleCandidate(db, c, t) ==
    LET udocs == db.users[c] IN
    /\ Len(udocs) > 0
    /\ udocs[1].created_at # None
    /\ t - ensure_timezone_aware(udocs[1].created_at) > HOUR

\* An open that looks at the candidate's User record before the ledger of
\* Referrals: the stale-candidate guard comes second.
process_referralStaleSecond(db, r, c, ctx, m, t, pos) ==
    LET docs == db.referrals[c]
        dup  == FirstIdx({i \in 1..Len(docs) : docs[i].referrer_id = r})
    IN  IF IsSelfReferral(r, c)
        THEN [db |-> db, res |-> "self_referral"]
        ELSE IF StaleCandidate(db, c, t)
        THEN [db |-> db, res |-> "stale_candidate_account"]
        ELSE IF dup # 0
        THEN [db |-> [db EXCEPT !.referrals[c][dup] = DuplicateUpdate(@, t)],
              res |-> "duplicate_pair"]
        ELSE IF ReferredByOther(docs)
        THEN [db |-> db, res |-> "already_referred_by_other"]
        ELSE IF ctx /\ check_user_was_existing_member(db, c, m, t)
        THEN [db |-> db, res |-> "pre_existing_member"]
        ELSE IF check_referral_abuse(db, r, c, t)
        THEN [db |-> db, res |-> "referrer_abuse_pattern"]
        ELSE [db |-> [db EXCEPT !.referrals[c] =
                         InsertAt(@, pos, NewReferral(r, c, Len(@) + 1, t))],
              res |-> "created"]

\* An open that credits the referrer as soon as the Referral is created.
process_referralPaysOnCreate(db, r, c, ctx, m, t, pos) ==
    LET docs == db.referrals[c]
        dup  == FirstIdx({i \in 1..Len(docs) : docs[i].referrer_id = r})
    IN  IF IsSelfReferral(r, c)
        THEN [db |-> db, res |-> "self_referral"]
        ELSE IF dup # 0
        THEN [db |-> [db EXCEPT !.referrals[c][dup] = DuplicateUpdate(@, t)],
              res |-> "duplicate_pair"]
        ELSE IF ReferredByOther(docs)
        THEN [db |-> db, res |-> "already_referred_by_other"]
        ELSE IF ctx /\ check_user_was_existing_member(db, c, m, t)
        THEN [db |-> db, res |-> "pre_existing_member"]
        ELSE IF check_referral_abuse(db, r, c, t)
        THEN [db |-> db, res |-> "referrer_abuse_pattern"]
        ELSE IF StaleCandidate(db, c, t)
        THEN [db |-> db, res |-> "stale_candidate_account"]
        ELSE [db |-> [db EXCEPT
                         !.referrals[c] =
                             InsertAt(@, pos, NewReferral(r, c, Len(@) + 1, t)),
                         !.users[r] =
                             IF Len(@) = 0 THEN @
                             ELSE [@ EXCEPT ![1].balance = @ + REFERRAL_REWARD]],
              res |-> "created"]

\* process_referral(referrer_id, referred_id, code, context): ctx says whether a
\* membership context is supplied, m is the oracle's answer inside the fourth
\* guard, pos is where the new document sorts.  [db, res].
process_referral(db, r, c, ctx, m, t, pos) ==
    LET docs == db.referrals[c]
        dup  == FirstIdx({i \in 1..Len(docs) : docs[i].referrer_id = r})
    IN  IF IsSelfReferral(r, c)
        THEN [db |-> db, res |-> "self_referral"]
        ELSE IF dup # 0
        THEN [db |-> [db EXCEPT !.referrals[c][dup] = DuplicateUpdate(@, t)],
              res |-> "duplicate_pair"]
        ELSE IF ReferredByOther(docs)
        THEN [db |-> db, res |-> "already_referred_by_other"]
        ELSE IF ctx /\ check_user_was_existing_member(db, c, m, t)
        THEN [db |-> db, res |-> "pre_existing_member"]
        ELSE IF check_referral_abuse(db, r, c, t)
        THEN [db |-> db, res |-> "referrer_abuse_pattern"]
        ELSE IF StaleCandidate(db, c, t)
        THEN [db |-> db, res |-> "stale_candidate_account"]
        ELSE [db |-> [db EXCEPT !.referrals[c] =
                         InsertAt(@, pos, NewReferral(r, c, Len(@) + 1, t))],
              res |-> "created"]

\* ------------------------------------------------------------ verifyAndSettle

\* A verification that overwrites the document instead of updating it: the
\* fields it does not name start again.
MarkVerifiedFresh(db, c, i) ==
    [db EXCEPT !.referrals[c][i] =
        [@ EXCEPT !.status = "verified",
                  !.group_join_verified = TRUE,
                  !.reward_given = TRUE,
                  !.rejoin_count = 0,
                  !.last_rejoin_date = None]]

\* referral_doc.reference.update({'status': 'verified', ...})
MarkVerified(db, c, i) ==
    [db EXCEPT !.referrals[c][i] =
        [@ EXCEPT !.status = "verified",
                  !.group_join_verified = TRUE,
                  !.reward_given = TRUE]]

\* An update to existing_member_no_reward that does not record the group join.
MarkExistingMemberUnverified(db, c, i) ==
    [db EXCEPT !.referrals[c][i] =
        [@ EXCEPT !.status = "existing_member_no_reward",
                  !.reward_given = FALSE]]

\* An update to existing_member_no_reward that does not write reward_given.
MarkExistingMemberKeepsReward(db, c, i) ==
    [db EXCEPT !.referrals[c][i] =
        [@ EXCEPT !.status = "existing_member_no_reward",
                  !.group_join_verified = TRUE]]

\* referral_doc.reference.update({'status': 'existing_member_no_reward', ...})
MarkExistingMember(db, c, i) ==
    [db EXCEPT !.referrals[c][i] =
        [@ EXCEPT !.status = "existing_member_no_reward",
                  !.group_join_verified = TRUE,
                  !.reward_given = FALSE]]

\* A credit written from the values of a referrer never credited before.
CreditReferrerFromZero(db, referrer) ==
    [db EXCEPT !.users[referrer][1] =
        [@ EXCEPT !.balance = REFERRAL_REWARD,
                  !.total_earnings = REFERRAL_REWARD,
                  !.total_referrals = 1]]

\* A credit that raises the balance alone.
CreditReferrerBalanceOnly(db, referrer) ==
    [db EXCEPT !.users[referrer][1] =
        [@ EXCEPT !.balance = @ + REFERRAL_REWARD,
                  !.total_referrals = @ + 1]]

\* A credit that forgets the referral counter.
CreditReferrerNoCount(db, referrer) ==
    [db EXCEPT !.users[referrer][1] =
        [@ EXCEPT !.balance = @ + REFERRAL_REWARD,
                  !.total_earnings = @ + REFERRAL_REWARD]]

\* referrer_doc.reference.update({'balance': ..., ...}) on the first User
\* document of the referrer.
CreditReferrer(db, referrer) ==
    [db EXCEPT !.users[referrer][1] =
        [@ EXCEPT !.balance = @ + REFERRAL_REWARD,
                  !.total_earnings = @ + REFERRAL_REWARD,
                  !.total_referrals = @ + 1]]

EarningsRecord(referrer, c, doc) ==
    [user_id |-> referrer, amount |-> REFERRAL_REWARD, type |-> "referral",
     referral_id |-> RefId(c, doc)]

\* earnings_ref.add(earnings_data)
AddEarnings(db, referrer, c, doc) ==
    [db EXCEPT !.earnings = @ (+) SetToBag({EarningsRecord(referrer, c, doc)})]

\* A lookup that is not scoped to the pending status.
VerifyLookupAnyStatus(db, c, m, t) ==
    LET d    == detect_rejoin_attempt(db, c, m, t)
        docs == d.db.referrals[c]
    IN  IF d.ret
        THEN [db |-> d.db, res |-> "rejoin_detected", doc |-> 0, referrer |-> 0]
        ELSE IF Len(docs) = 0
        THEN [db |-> d.db, res |-> "no_pending", doc |-> 0, referrer |-> 0]
        ELSE [db |-> d.db, res |-> "found",
              doc |-> docs[1].id, referrer |-> docs[1].referrer_id]

\* Lines 670-689: rejoin detection, then the lookup scoped to
\* status = pending_group_join.  m is the oracle's answer inside the detection.
\* [db, res, doc, referrer].
VerifyLookup(db, c, m, t) ==
    LET d    == detect_rejoin_attempt(db, c, m, t)
        docs == d.db.referrals[c]
        i    == FirstIdx({k \in 1..Len(docs) : docs[k].status = "pending_group_join"})
    IN  IF d.ret
        THEN [db |-> d.db, res |-> "rejoin_detected", doc |-> 0, referrer |-> 0]
        ELSE IF i = 0
        THEN [db |-> d.db, res |-> "no_pending", doc |-> 0, referrer |-> 0]
        ELSE [db |-> d.db, res |-> "found",
              doc |-> docs[i].id, referrer |-> docs[i].referrer_id]

\* Lines 691-772: the second membership check, the status update and the
\* settlement, on the Referral document found by the lookup.  [db, res].
VerifySettle(db, c, doc, referrer, m, t) ==
    LET i == IdxOfId(db.referrals[c], doc) IN
    IF check_user_was_existing_member(db, c, m, t)
    THEN [db |-> MarkExistingMember(db, c, i), res |-> "existing_member"]
    ELSE LET db1 == MarkVerified(db, c, i) IN
         IF Len(db1.users[referrer]) > 0
         THEN [db |-> AddEarnings(CreditReferrer(db1, referrer), referrer, c, doc),
               res |-> "settled"]
         ELSE [db |-> db1, res |-> "referrer_not_found"]

\* verify_group_join_and_reward(user_id, context) run from start to end with
\* the oracle answering m1, m2, m3 to its three queries.  [db, res].
verify_group_join_and_reward(db, c, m1, m2, m3, t) ==
    IF ~check_group_membership(m1)
    THEN [db |-> db, res |-> "not_member"]
    ELSE LET l == VerifyLookup(db, c, m2, t) IN
         IF l.res # "found"
         THEN [db |-> l.db, res |-> l.res]
         ELSE VerifySettle(l.db, c, l.doc, l.referrer, m3, t)

\* ------------------------------------------------------------ users

\* A code that keeps only part of the account id.
generate_referral_codeShort(user_id) == "CP" \o ToString(user_id % 2)

\* generate_referral_code: "CP" followed by the decimal digits of the id.
generate_referral_code(user_id) == "CP" \o ToString(user_id)

\* new_user_data (lines 379-393).
NewUser(a, t) ==
    [telegram_id |-> a, balance |-> 0, total_earnings |-> 0,
     total_referrals |-> 0, referral_code |-> generate_referral_code(a),
     created_at |-> t]

\* A lookup that finds nothing.
get_user_from_dbMisses(us, a) == <<>>

\* get_user_from_db (335-350): the account's first User document, or none; the
\* call contains no await of its own.
get_user_from_db(us, a) == IF Len(us[a]) > 0 THEN <<us[a][1]>> ELSE <<>>

\* A start that writes the whole record again for an account it already knows.
create_or_update_userReset(us, a, t) ==
    [us EXCEPT ![a] = <<NewUser(a, t)>>]

\* A start that stores a new record whether or not the account has one.
create_or_update_userDuplicates(us, a, t) ==
    [us EXCEPT ![a] = Append(@, NewUser(a, t))]

\* create_or_update_user: an existing record only gets new display fields and
\* activity stamps (lines 370-376), which the ledgers modelled here do not hold.
create_or_update_user(us, a, t) ==
    IF get_user_from_db(us, a) # <<>> THEN us
    ELSE [us EXCEPT ![a] = Append(@, NewUser(a, t))]

\* ------------------------------------------------------------ state machine

Idle == [pc |-> "idle", cand |-> 0, doc |-> 0, referrer |-> 0]

Init ==
    /\ now = 0
    /\ member = [c \in Accts |-> FALSE]
    /\ users = [a \in Accts |-> <<>>]
    /\ referrals = [c \in Accts |-> <<>>]
    /\ earnings = EmptyBag
    /\ result = "none"
    /\ rejectedOther = {}
    /\ vcalls = [s \in Slots |-> Idle]

NoCallInFlight == \A s \in Slots : vcalls[s].pc = "idle"

Commit(db) ==
    /\ users' = db.users
    /\ referrals' = db.referrals
    /\ earnings' = db.earnings

\* The start event's first step: the account's User record is stored.
Start(a) ==
    /\ users' = create_or_update_user(users, a, now)
    /\ result' = "none"
    /\ UNCHANGED <<now, member, referrals, earnings, rejectedOther, vcalls>>

\* One process_referral call.
Open(r, c, ctx) ==
    /\ \A i \in 1..Len(referrals[c]) :
          referrals[c][i].referrer_id = r => referrals[c][i].rejoin_count < MaxRejoin
    /\ \E pos \in 1..(Len(referrals[c]) + 1) :
          LET out == process_referral(DB, r, c, ctx, member[c], now, pos) IN
          /\ Commit(out.db)
          /\ result' = out.res
          /\ rejectedOther' = IF out.res = "already_referred_by_other"
                              THEN rejectedOther \cup {<<r, c>>}
                              ELSE rejectedOther
    /\ UNCHANGED <<now, member, vcalls>>

\* One verify_group_join_and_reward call, run while no other call is in flight.
Verify(c) ==
    /\ NoCallInFlight
    /\ LET out == verify_group_join_and_reward(DB, c, member[c], member[c], member[c], now) IN
       /\ Commit(out.db)
       /\ result' = out.res
    /\ UNCHANGED <<now, member, rejectedOther, vcalls>>

\* The candidate joins the required group (the oracle's next answers change).
Join(c) ==
    /\ ~member[c]
    /\ member' = [member EXCEPT ![c] = TRUE]
    /\ result' = "none"
    /\ UNCHANGED <<now, users, referrals, earnings, rejectedOther, vcalls>>

\* The candidate leaves the required group.
Leave(c) ==
    /\ member[c]
    /\ member' = [member EXCEPT ![c] = FALSE]
    /\ result' = "none"
    /\ UNCHANGED <<now, users, referrals, earnings, rejectedOther, vcalls>>

\* Time passes up to a later instant at which the clock is read.
Tick ==
    /\ \E t \in TimePoints : t > now /\ now' = t
    /\ result' = "none"
    /\ UNCHANGED <<member, users, referrals, earnings, rejectedOther, vcalls>>

Next ==
    \/ \E a \in StartAccts : Start(a)
    \/ \E p \in OpenPairs, ctx \in BOOLEAN : Open(p[1], p[2], ctx)
    \/ \E c \in Candidates : Verify(c)
    \/ \E c \in Candidates : Join(c)
    \/ \E c \in Candidates : Leave(c)
    \/ Tick

Spec == Init /\ [][Next]_vars

\* ------------------------------------------------------------ concurrent handling
\* Handlers are coroutines: a call gives up control exactly where it awaits the
\* membership oracle (get_chat_member, line 320), and runs without interruption
\* between two such points.  A verify call awaits three times: at line 666, inside
\* detect_rejoin_attempt (line 671 -> 620 -> 560) and inside the second
\* check_user_was_existing_member (line 692 -> 560).

\* The call starts and sends its first membership query (line 666).
VBegin(s, c) ==
    /\ vcalls[s].pc = "idle"
    /\ \A s2 \in Slots : s2 < s => vcalls[s2].pc # "idle"
    /\ vcalls' = [vcalls EXCEPT ![s] = [Idle EXCEPT !.pc = "member", !.cand = c]]
    /\ result' = "none"
    /\ UNCHANGED <<now, member, users, referrals, earnings, rejectedOther>>

\* The first answer arrives (lines 666-671): not a member ends the call.
VMember(s) ==
    /\ vcalls[s].pc = "member"
    /\ IF check_group_membership(member[vcalls[s].cand])
       THEN /\ vcalls' = [vcalls EXCEPT ![s].pc = "rejoin"]
            /\ result' = "none"
       ELSE /\ vcalls' = [vcalls EXCEPT ![s] = Idle]
            /\ result' = "not_member"
    /\ UNCHANGED <<now, member, users, referrals, earnings, rejectedOther>>

\* The second answer arrives (lines 560-692): rejoin detection and the lookup of
\* the pending Referral, up to the next membership query.
VRejoin(s) ==
    /\ vcalls[s].pc = "rejoin"
    /\ LET c == vcalls[s].cand
           l == VerifyLookup(DB, c, member[c], now)
       IN  /\ Commit(l.db)
           /\ IF l.res = "found"
              THEN /\ vcalls' = [vcalls EXCEPT ![s].pc = "existing",
                                               ![s].doc = l.doc,
                                               ![s].referrer = l.referrer]
                   /\ result' = "none"
              ELSE /\ vcalls' = [vcalls EXCEPT ![s] = Idle]
                   /\ result' = l.res
    /\ UNCHANGED <<now, member, rejectedOther>>

\* The third answer arrives (lines 560-772): the second membership check, the
\* status update and the settlement.
VExisting(s) ==
    /\ vcalls[s].pc = "existing"
    /\ LET c   == vcalls[s].cand
           out == VerifySettle(DB, c, vcalls[s].doc, vcalls[s].referrer, member[c], now)
       IN  /\ Commit(out.db)
           /\ result' = out.res
    /\ vcalls' = [vcalls EXCEPT ![s] = Idle]
    /\ UNCHANGED <<now, member, rejectedOther>>

NextConc ==
    \/ \E a \in StartAccts : Start(a)
    \/ \E p \in ConcPairs, ctx \in BOOLEAN : Open(p[1], p[2], ctx)
    \/ \E c \in Candidates : Join(c)
    \/ \E c \in Candidates : Leave(c)
    \/ Tick
    \/ \E s \in Slots, c \in Candidates : VBegin(s, c)
    \/ \E s \in Slots : VMember(s)
    \/ \E s \in Slots : VRejoin(s)
    \/ \E s \in Slots : VExisting(s)

SpecConc == Init /\ [][NextConc]_vars

\* ------------------------------------------------------------ one referrer, two candidates
\* SpecCredit: referrer 1 has referred candidates 2 and 3, and the verify calls
\* of the two candidates interleave at their awaits.  The referrer's record is
\* read (718) and written (728) after the last await of a call (692), so the
\* read and the write of one call are not separated by a step of another.

\* The candidates referrer 1 brings in.
CreditCandidates == {2, 3}

\* A verify call for a candidate who has no other call in flight.
VBeginOther(s, c) ==
    /\ \A s2 \in Slots : vcalls[s2].cand # c
    /\ VBegin(s, c)

\* The first open of referrer 1 for candidate c.
OpenFirst(c) ==
    /\ referrals[c] = <<>>
    /\ Open(1, c, TRUE)

NextCredit ==
    \/ Start(1)
    \/ \E c \in CreditCandidates : OpenFirst(c)
    \/ \E c \in CreditCandidates : Join(c)
    \/ Tick
    \/ \E s \in Slots, c \in CreditCandidates : VBeginOther(s, c)
    \/ \E s \in Slots : VMember(s)
    \/ \E s \in Slots : VRejoin(s)
    \/ \E s \in Slots : VExisting(s)

SpecCredit == Init /\ [][NextCredit]_vars

\* ------------------------------------------------------------ concurrent starts
\* start_command reaches create_or_update_user (797) without an await, and
\* create_or_update_user awaits only get_user_from_db, a coroutine that queries
\* the ledger synchronously: the lookup (364) and the insert (395) of one event
\* run without a step of another event between them.  The event first gives up
\* control at the membership query of line 855.  SpecUsers lets start events
\* without a link overlap.

\* Lines 780-855: the User record is stored and the membership query sent.
SBegin(s, a) ==
    /\ vcalls[s].pc = "idle"
    /\ \A s2 \in Slots : s2 < s => vcalls[s2].pc # "idle"
    /\ users' = create_or_update_user(users, a, now)
    /\ vcalls' = [vcalls EXCEPT ![s] = [Idle EXCEPT !.pc = "start_member", !.cand = a]]
    /\ result' = "none"
    /\ UNCHANGED <<now, member, referrals, earnings, rejectedOther>>

\* Lines 855-919: the answer arrives and the event replies; without a link
\* there is nothing to settle.
SEnd(s) ==
    /\ vcalls[s].pc = "start_member"
    /\ vcalls' = [vcalls EXCEPT ![s] = Idle]
    /\ result' = "none"
    /\ UNCHANGED <<now, member, users, referrals, earnings, rejectedOther>>

NextUsers ==
    \/ \E s \in Slots, a \in Accts : SBegin(s, a)
    \/ \E s \in Slots : SEnd(s)
    \/ \E c \in Candidates : Join(c)
    \/ \E c \in Candidates : Leave(c)
    \/ Tick

SpecUsers == Init /\ [][NextUsers]_vars

\* ------------------------------------------------------------ concurrent opens
\* process_referral called with a context (line 840) awaits the membership
\* oracle once, inside its fourth guard (450 -> 560 -> 320): after the two
\* Referral lookups of the second and third guard (421, 439) and before the
\* insert (492).  SpecOpen lets open calls interleave at that point.

\* The pairs opened concurrently: two referrers and one candidate.
RacePairs == {<<1, 3>>, <<2, 3>>}

\* Lines 412-450: the first three guards, then the call sends its membership
\* query and waits.
OBegin(s, r, c) ==
    /\ vcalls[s].pc = "idle"
    /\ \A s2 \in Slots : s2 < s => vcalls[s2].pc # "idle"
    /\ \A i \in 1..Len(referrals[c]) : referrals[c][i].rejoin_count < MaxRejoin
    /\ LET docs == referrals[c]
           dup  == FirstIdx({i \in 1..Len(docs) : docs[i].referrer_id = r})
       IN  IF IsSelfReferral(r, c)
           THEN /\ result' = "self_referral"
                /\ UNCHANGED <<referrals, rejectedOther, vcalls>>
           ELSE IF dup # 0
           THEN /\ referrals' = [referrals EXCEPT ![c][dup] = DuplicateUpdate(@, now)]
                /\ result' = "duplicate_pair"
                /\ UNCHANGED <<rejectedOther, vcalls>>
           ELSE IF ReferredByOther(docs)
           THEN /\ result' = "already_referred_by_other"
                /\ rejectedOther' = rejectedOther \cup {<<r, c>>}
                /\ UNCHANGED <<referrals, vcalls>>
           ELSE /\ vcalls' = [vcalls EXCEPT ![s] =
                                 [Idle EXCEPT !.pc = "guard4", !.cand = c, !.referrer = r]]
                /\ result' = "none"
                /\ UNCHANGED <<referrals, rejectedOther>>
    /\ UNCHANGED <<now, member, users, earnings>>

\* Lines 450-494: the oracle answers; the fourth, fifth and sixth guard and the
\* insert, with the ledgers as they are now.
OResume(s) ==
    /\ vcalls[s].pc = "guard4"
    /\ LET r == vcalls[s].referrer
           c == vcalls[s].cand
       IN  IF check_user_was_existing_member(DB, c, member[c], now)
           THEN /\ result' = "pre_existing_member"
                /\ UNCHANGED referrals
           ELSE IF check_referral_abuse(DB, r, c, now)
           THEN /\ result' = "referrer_abuse_pattern"
                /\ UNCHANGED referrals
           ELSE IF StaleCandidate(DB, c, now)
           THEN /\ result' = "stale_candidate_account"
                /\ UNCHANGED referrals
           ELSE /\ \E pos \in 1..(Len(referrals[c]) + 1) :
                      referrals' = [referrals EXCEPT ![c] =
                          InsertAt(@, pos, NewReferral(r, c, Len(@) + 1, now))]
                /\ result' = "created"
    /\ vcalls' = [vcalls EXCEPT ![s] = Idle]
    /\ UNCHANGED <<now, member, users, earnings, rejectedOther>>

NextOpen ==
    \/ \E a \in StartAccts : Start(a)
    \/ \E s \in Slots, p \in RacePairs : OBegin(s, p[1], p[2])
    \/ \E s \in Slots : OResume(s)
    \/ \E c \in Candidates : Join(c)
    \/ \E c \in Candidates : Leave(c)
    \/ Tick

SpecOpen == Init /\ [][NextOpen]_vars

\* ------------------------------------------------------------ collaborator failures
\* A ledger read or write may raise.  Inside verify_group_join_and_reward every
\* statement from line 664 to 766 is under one try whose handler (768-770) logs
\* and returns False, and so is the body of process_referral (411-498);
\* nothing written before the failure is undone.  A failed
\* membership query is caught by check_group_membership (322-324) and answers
\* False.

\* The operation of one verify call that fails: the first membership query
\* (666), the pending lookup (680), the update to existing_member_no_reward
\* (697), the update to verified (707), the referrer lookup (718), the referrer
\* update (728) or the Earnings insert (763).
FailPoints ==
    {"oracle", "lookup", "mark_existing", "mark_verified",
     "referrer_read", "credit", "earnings_add"}

\* A failure inside a check of one verify call.  The checks catch it themselves
\* and answer False (612-614, 654-656): "detect" is a ledger operation failing
\* inside rejoin detection (622-647), "recheck" a ledger read failing inside
\* the check called at line 692 (565-606), "oracle_later" a membership oracle
\* that answers the query of line 666 and fails from then on (the queries of
\* line 560 made from 620 and from 692, each caught at 322-324).
CheckFailPoints == {"detect", "recheck", "oracle_later"}

\* The operation of one open call that fails: the pair lookup (421), the
\* duplicate update (428), the candidate lookup (439), the User lookup (464)
\* or the insert (492).
OpenFailPoints == {"pair_read", "dup_update", "other_read", "user_read", "add"}

\* A failure inside a check of one open call, caught by the check, which
\* answers False: inside check_user_was_existing_member (612-614) or inside
\* check_referral_abuse (552-554).
OpenCheckFailPoints == {"existing_check", "abuse_check"}

\* A handler that lets the exception through.
ExceptReturnFalsePropagates(out) == out

\* except Exception as e: log, return False (496-498 and 768-770).  Whatever
\* the body wrote before it raised stays written.
ExceptReturnFalse(out) ==
    IF out.res = "raised" THEN [db |-> out.db, res |-> "ledger_error"] ELSE out

\* Lines 691-766 with the ledger operation f raising when it is reached.
VerifySettleWithFailure(db, c, doc, referrer, m, t, f) ==
    LET i == IdxOfId(db.referrals[c], doc) IN
    IF f # "recheck" /\ check_user_was_existing_member(db, c, m, t)
    THEN IF f = "mark_existing"
         THEN [db |-> db, res |-> "raised"]
         ELSE [db |-> MarkExistingMember(db, c, i), res |-> "existing_member"]
    ELSE IF f = "mark_verified"
    THEN [db |-> db, res |-> "raised"]
    ELSE LET db1 == MarkVerified(db, c, i) IN
         IF f = "referrer_read"
         THEN [db |-> db1, res |-> "raised"]
         ELSE IF Len(db1.users[referrer]) = 0
         THEN [db |-> db1, res |-> "referrer_not_found"]
         ELSE IF f = "credit"
         THEN [db |-> db1, res |-> "raised"]
         ELSE LET db2 == CreditReferrer(db1, referrer) IN
              IF f = "earnings_add"
              THEN [db |-> db2, res |-> "raised"]
              ELSE [db |-> AddEarnings(db2, referrer, c, doc), res |-> "settled"]

\* The body of verify_group_join_and_reward (664-766) with the operation f
\* failing when the call reaches it; a call that never reaches f runs as usual.
VerifyBodyWithFailure(db, c, m1, m2, m3, t, f) ==
    IF ~check_group_membership(IF f = "oracle" THEN FALSE ELSE m1)
    THEN [db |-> db, res |-> "not_member"]
    ELSE LET d == IF f = "detect"
                  THEN [db |-> db, ret |-> FALSE]
                  ELSE detect_rejoin_attempt(db, c, m2, t)
         IN
         IF d.ret
         THEN [db |-> d.db, res |-> "rejoin_detected"]
         ELSE IF f = "lookup"
         THEN [db |-> d.db, res |-> "raised"]
         ELSE LET l == VerifyLookup(db, c, m2, t) IN
              IF l.res # "found"
              THEN [db |-> l.db, res |-> l.res]
              ELSE VerifySettleWithFailure(l.db, c, l.doc, l.referrer, m3, t, f)

\* verify_group_join_and_reward: the body under its try.  [db, res].
VerifyWithFailure(db, c, m1, m2, m3, t, f) ==
    ExceptReturnFalse(
        IF f = "oracle_later"
        THEN VerifyBodyWithFailure(db, c, m1, FALSE, FALSE, t, f)
        ELSE VerifyBodyWithFailure(db, c, m1, m2, m3, t, f))

\* The body of process_referral (412-494) with the operation f failing when
\* the call reaches it.
OpenBodyWithFailure(db, r, c, ctx, m, t, pos, f) ==
    LET docs == db.referrals[c]
        dup  == FirstIdx({i \in 1..Len(docs) : docs[i].referrer_id = r})
    IN  IF IsSelfReferral(r, c)
        THEN [db |-> db, res |-> "self_referral"]
        ELSE IF f = "pair_read"
        THEN [db |-> db, res |-> "raised"]
        ELSE IF dup # 0
        THEN IF f = "dup_update"
             THEN [db |-> db, res |-> "raised"]
             ELSE [db |-> [db EXCEPT !.referrals[c][dup] = DuplicateUpdate(@, t)],
                   res |-> "duplicate_pair"]
        ELSE IF f = "other_read"
        THEN [db |-> db, res |-> "raised"]
        ELSE IF ReferredByOther(docs)
        THEN [db |-> db, res |-> "already_referred_by_other"]
        ELSE IF ctx /\ f # "existing_check"
                    /\ check_user_was_existing_member(db, c, m, t)
        THEN [db |-> db, res |-> "pre_existing_member"]
        ELSE IF f # "abuse_check" /\ check_referral_abuse(db, r, c, t)
        THEN [db |-> db, res |-> "referrer_abuse_pattern"]
        ELSE IF f = "user_read"
        THEN [db |-> db, res |-> "raised"]
        ELSE IF StaleCandidate(db, c, t)
        THEN [db |-> db, res |-> "stale_candidate_account"]
        ELSE IF f = "add"
        THEN [db |-> db, res |-> "raised"]
        ELSE [db |-> [db EXCEPT !.referrals[c] =
                         InsertAt(@, pos, NewReferral(r, c, Len(@) + 1, t))],
              res |-> "created"]

\* process_referral: the body under its try.  [db, res].
OpenWithFailure(db, r, c, ctx, m, t, pos, f) ==
    ExceptReturnFalse(OpenBodyWithFailure(db, r, c, ctx, m, t, pos, f))

\* One verify_group_join_and_reward call during which operation f fails.
VerifyFail(c, f) ==
    /\ NoCallInFlight
    /\ LET out == VerifyWithFailure(DB, c, member[c], member[c], member[c], now, f) IN
       /\ Commit(out.db)
       /\ result' = out.res
    /\ UNCHANGED <<now, member, rejectedOther, vcalls>>

\* One process_referral call during which operation f fails.
OpenFail(r, c, ctx, f) ==
    /\ \A i \in 1..Len(referrals[c]) :
          referrals[c][i].referrer_id = r => referrals[c][i].rejoin_count < MaxRejoin
    /\ \E pos \in 1..(Len(referrals[c]) + 1) :
          LET out == OpenWithFailure(DB, r, c, ctx, member[c], now, pos, f) IN
          /\ Commit(out.db)
          /\ result' = out.res
          /\ rejectedOther' = IF out.res = "already_referred_by_other"
                              THEN rejectedOther \cup {<<r, c>>}
                              ELSE rejectedOther
    /\ UNCHANGED <<now, member, vcalls>>

NextFail ==
    \/ \E a \in StartAccts : Start(a)
    \/ \E p \in ConcPairs, ctx \in BOOLEAN : Open(p[1], p[2], ctx)
    \/ \E p \in ConcPairs, ctx \in BOOLEAN,
          f \in OpenFailPoints \cup OpenCheckFailPoints :
          OpenFail(p[1], p[2], ctx, f)
    \/ \E c \in Candidates : Verify(c)
    \/ \E c \in Candidates, f \in FailPoints \cup CheckFailPoints :
          VerifyFail(c, f)
    \/ \E c \in Candidates : Join(c)
    \/ \E c \in Candidates : Leave(c)
    \/ Tick

SpecFail == Init /\ [][NextFail]_vars

\* ------------------------------------------------------------ the start event
\* start_command as a whole: it stores the User record, resolves the referral
\* code of the link to a referrer, opens the referral with the membership
\* context, queries the oracle and, for a member who came through a link,
\* verifies and settles at once.  SpecStart handles events one at a time, the
\* oracle giving the same answer to every query of one event.

\* referrer_id = None
NoReferrer == 0

\* context.args[0] of the start events sent, "" for a start without argument:
\* the codes of the three accounts and one that is too short.
StartCodes == {"", "CP1", "CP2", "CP3", "CP"}

\* The start events sent: the candidate with every code, the referrer without
\* a link.
StartEvents == {<<1, "">>} \cup {<<3, code>> : code \in StartCodes}

\* The referralCodes collection as the bot reads it (824-827): account 2 never
\* started the bot and is known by its code alone.
referralCodes == {[referral_code |-> "CP2", user_id |-> 2, is_active |-> TRUE]}

\* referral_code.startswith('CP') and len(referral_code) >= 3
ValidCodeFormat(code) == Len(code) >= 3 /\ SubSeq(code, 1, 2) = "CP"

\* Lines 814-836: the owner of the code among the User records, else the user
\* of an active referralCodes document, else none.
ResolveReferrer(us, code) ==
    LET owners == {a \in Accts :
                     \E i \in 1..Len(us[a]) : us[a][i].referral_code = code}
        active == {d \in referralCodes : d.referral_code = code /\ d.is_active}
    IN  IF owners # {} THEN CHOOSE a \in owners : TRUE
        ELSE IF active # {} THEN (CHOOSE d \in active : TRUE).user_id
        ELSE NoReferrer

\* A start event that opens the referral before it stores the User record.
start_commandOpensFirst(db, a, code, m, t, pos) ==
    LET db1 == [db EXCEPT !.users = create_or_update_user(@, a, t)]
        referrer_id == IF code # "" /\ ValidCodeFormat(code)
                       THEN ResolveReferrer(db1.users, code)
                       ELSE NoReferrer
        o == IF referrer_id # NoReferrer /\ referrer_id # a
             THEN process_referral(db, referrer_id, a, TRUE, m, t, pos)
             ELSE [db |-> db, res |-> "none"]
        db2 == [o.db EXCEPT !.users = create_or_update_user(@, a, t)]
    IN  IF check_group_membership(m) /\ referrer_id # NoReferrer
        THEN LET v == verify_group_join_and_reward(db2, a, m, m, m, t) IN
             [db |-> v.db, open |-> o.res, res |-> v.res]
        ELSE [db |-> db2, open |-> o.res, res |-> "none"]

\* start_command(update, context) for account a whose link carries code; m is
\* the oracle's answer and pos where a new Referral sorts.  [db, open, res]:
\* the ledgers, the result of process_referral and that of the settlement.
start_command(db, a, code, m, t, pos) ==
    LET db1 == [db EXCEPT !.users = create_or_update_user(@, a, t)]
        referrer_id == IF code # "" /\ ValidCodeFormat(code)
                       THEN ResolveReferrer(db1.users, code)
                       ELSE NoReferrer
        o == IF referrer_id # NoReferrer /\ referrer_id # a
             THEN process_referral(db1, referrer_id, a, TRUE, m, t, pos)
             ELSE [db |-> db1, res |-> "none"]
    IN  IF check_group_membership(m) /\ referrer_id # NoReferrer
        THEN LET v == verify_group_join_and_reward(o.db, a, m, m, m, t) IN
             [db |-> v.db, open |-> o.res, res |-> v.res]
        ELSE [db |-> o.db, open |-> o.res, res |-> "none"]

\* One start event.
StartCommand(a, code) ==
    /\ \A i \in 1..Len(referrals[a]) : referrals[a][i].rejoin_count < MaxRejoin
    /\ \E pos \in 1..(Len(referrals[a]) + 1) :
          LET out == start_command(DB, a, code, member[a], now, pos) IN
          /\ Commit(out.db)
          /\ result' = out.open
          /\ rejectedOther' = IF out.open = "already_referred_by_other"
                              THEN rejectedOther \cup {<<ResolveReferrer(out.db.users, code), a>>}
                              ELSE rejectedOther
    /\ UNCHANGED <<now, member, vcalls>>

\* The "Verify Membership" button (946-969).
VerifyButton(c) == Verify(c)

NextStart ==
    \/ \E e \in StartEvents : StartCommand(e[1], e[2])
    \/ \E c \in Candidates : VerifyButton(c)
    \/ \E c \in Candidates : Join(c)
    \/ \E c \in Candidates : Leave(c)
    \/ Tick

SpecStart == Init /\ [][NextStart]_vars

\* ------------------------------------------------------------ the checks on their own
\* The three checks are functions of the ledgers, the oracle's answer and the
\* clock.  SpecChecks starts from any ledger state of one candidate and two
\* referrers at a fixed instant, the records' ages chosen around the thresholds
\* of one hour, one day and seven days, and applies the checks and open to it.

ChecksNow == WEEK + 2

\* Ages in hours, of the referrer's and the candidate's User record and of the
\* Referral.
ReferrerAges == {DAY, DAY + 1, WEEK + 1}
CandidateAges == {0, HOUR, HOUR + 1, DAY - 1}
ReferralAges == {0, HOUR, HOUR + 1}
RejoinCounts == {0, 1}
Statuses == {"pending_group_join", "verified", "existing_member_no_reward", "rejoined"}

\* The documents of one account in 'users': none, or the one written by
\* create_or_update_user age hours ago, credited for a settlement or not.
ChecksUserDocs(a, age, credited) ==
    IF age = None THEN <<>>
    ELSE <<[NewUser(a, ChecksNow - age) EXCEPT
               !.balance = IF credited THEN REFERRAL_REWARD ELSE 0,
               !.total_earnings = IF credited THEN REFERRAL_REWARD ELSE 0,
               !.total_referrals = IF credited THEN 1 ELSE 0]>>

\* A Referral written by process_referral age hours ago, as the later updates
\* leave it: a repeated open stamps last_rejoin_date, the settlement sets
\* reward_given, rejoin detection counts at least one rejoin.
ChecksReferral(r, c, st, n, age) ==
    [NewReferral(r, c, 1, ChecksNow - age) EXCEPT
        !.status = st,
        !.rejoin_count = n,
        !.group_join_verified = (st # "pending_group_join"),
        !.reward_given = (st \in {"verified", "rejoined"}),
        !.last_rejoin_date = IF n > 0 THEN ChecksNow - age ELSE None]

ChecksReferralDocs(c) ==
    {<<>>} \cup
    {<<ChecksReferral(x[1], c, x[2], x[3], x[4])>> :
        x \in {y \in {1, 2} \X Statuses \X RejoinCounts \X ReferralAges :
                  y[2] = "rejoined" => y[3] > 0}}

\* The ledger also holds a Referral of another pair: account 2 was referred by
\* account 1 an hour ago.
OtherReferral == ChecksReferral(1, 2, "pending_group_join", 0, HOUR)

InitChecks ==
    /\ now = ChecksNow
    /\ \E b \in BOOLEAN : member = [a \in Accts |-> a = 3 /\ b]
    /\ \E rr \in ChecksReferralDocs(3), g1 \in ReferrerAges \cup {None},
             g3 \in CandidateAges \cup {None} :
          LET paid == /\ rr # <<>>
                      /\ rr[1].reward_given
                      /\ rr[1].referrer_id = 1
                      /\ g1 # None
                      /\ g1 >= ChecksNow - rr[1].created_at
          IN  /\ referrals = [a \in Accts |->
                                IF a = 3 THEN rr
                                ELSE IF a = 2 THEN <<OtherReferral>>
                                ELSE <<>>]
              /\ users = [a \in Accts |->
                            IF a = 1 THEN ChecksUserDocs(1, g1, paid)
                            ELSE IF a = 3 THEN ChecksUserDocs(3, g3, FALSE)
                            ELSE <<>>]
              /\ earnings = IF paid THEN SetToBag({EarningsRecord(1, 3, 1)})
                            ELSE EmptyBag
    /\ result = "none"
    /\ rejectedOther = {}
    /\ vcalls = [s \in Slots |-> Idle]

\* One check_referral_abuse call.
ApplyAbuse(r, c) ==
    /\ result' = IF check_referral_abuse(DB, r, c, now) THEN "abusive" ELSE "not_abusive"
    /\ UNCHANGED <<now, member, users, referrals, earnings, rejectedOther, vcalls>>

\* One check_user_was_existing_member call.
ApplyExisting(c) ==
    /\ result' = IF check_user_was_existing_member(DB, c, member[c], now)
                 THEN "was_existing" ELSE "not_existing"
    /\ UNCHANGED <<now, member, users, referrals, earnings, rejectedOther, vcalls>>

\* One detect_rejoin_attempt call.
ApplyDetect(c) ==
    /\ LET d == detect_rejoin_attempt(DB, c, member[c], now) IN
       /\ Commit(d.db)
       /\ result' = IF d.ret THEN "rejoin" ELSE "not_rejoin"
    /\ UNCHANGED <<now, member, rejectedOther, vcalls>>

NextChecks ==
    \/ \E p \in OpenPairs : ApplyAbuse(p[1], p[2])
    \/ \E c \in Candidates : ApplyExisting(c)
    \/ \E c \in Candidates : ApplyDetect(c)
    \/ \E p \in OpenPairs, ctx \in BOOLEAN : Open(p[1], p[2], ctx)

SpecChecks == InitChecks /\ [][NextChecks]_vars

\* ------------------------------------------------------------ offline mode
\* When Firebase cannot be initialised the module-level db is None (307) and
\* the bot keeps that handle for its whole run (311).  The ledgers, shared with
\* the other applications that write them, exist all the same: SpecOffline
\* starts from any ledger state of the candidate and runs open and verify calls
\* of a bot without a handle.

\* self.db of the bot of SpecOffline.
OfflineHandle == FALSE

\* A verify call that does not look at the handle.
VerifyCallIgnoresHandle(handle, db, c, m1, m2, m3, t) ==
    verify_group_join_and_reward(db, c, m1, m2, m3, t)

\* process_referral from its first line: without a handle it returns at 409.
OpenCall(handle, db, r, c, ctx, m, t, pos) ==
    IF ~handle THEN [db |-> db, res |-> "offline"]
    ELSE process_referral(db, r, c, ctx, m, t, pos)

\* verify_group_join_and_reward from its first line: without a handle it
\* returns at 662, before the membership query of 666.
VerifyCall(handle, db, c, m1, m2, m3, t) ==
    IF ~handle THEN [db |-> db, res |-> "offline"]
    ELSE verify_group_join_and_reward(db, c, m1, m2, m3, t)

\* One process_referral call of the bot without a handle.
OpenOffline(r, c, ctx) ==
    /\ \E pos \in 1..(Len(referrals[c]) + 1) :
          LET out == OpenCall(OfflineHandle, DB, r, c, ctx, member[c], now, pos) IN
          /\ Commit(out.db)
          /\ result' = out.res
    /\ UNCHANGED <<now, member, rejectedOther, vcalls>>

\* One verify_group_join_and_reward call of the bot without a handle.
VerifyOffline(c) ==
    /\ LET out == VerifyCall(OfflineHandle, DB, c, member[c], member[c], member[c], now) IN
       /\ Commit(out.db)
       /\ result' = out.res
    /\ UNCHANGED <<now, member, rejectedOther, vcalls>>

NextOffline ==
    \/ \E p \in OpenPairs, ctx \in BOOLEAN : OpenOffline(p[1], p[2], ctx)
    \/ \E c \in Candidates : VerifyOffline(c)
    \/ \E c \in Candidates : Join(c)
    \/ \E c \in Candidates : Leave(c)

SpecOffline == InitChecks /\ [][NextOffline]_vars

\* ------------------------------------------------------------ properties

RECURSIVE SumCopies(_, _)
SumCopies(S, B) ==
    IF S = {} THEN 0
    ELSE LET e == CHOOSE x \in S : TRUE
         IN  CopiesIn(e, B) + SumCopies(S \ {e}, B)

\* Number of Earnings records that reference Referral rid.
EarningsFor(B, rid) == SumCopies({e \in BagToSet(B) : e.referral_id = rid}, B)

\* The Referral documents whose referrer is r.
ReferralsOf(r) ==
    {x \in UNION {{RefId(c, i) : i \in 1..Len(referrals[c])} : c \in Accts} :
        referrals[x[1]][x[2]].referrer_id = r}

\* Some Earnings record references a Referral of candidate c: c has been settled.
Settled(c) == \E e \in BagToSet(earnings) : e.referral_id[1] = c

\* The pre-existing-membership condition for candidate c, spelled out on the state.
RejoinCondition(c) ==
    /\ member[c]
    /\ \/ /\ Len(referrals[c]) > 0
          /\ \/ referrals[c][1].rejoin_count > 0
             \/ now - referrals[c][1].created_at > 1
       \/ /\ Len(users[c]) > 0
          /\ now - users[c][1].created_at > 1

\* C1: in every state reached by open and verifyAndSettle calls run one at a
\* time, every Referral with reward_given = true is referenced by exactly one
\* Earnings record, also when the referrer's User record is absent at settlement.
C1_ExactlyOneEarnings ==
    \A c \in Accts : \A i \in 1..Len(referrals[c]) :
        referrals[c][i].reward_given =>
            EarningsFor(earnings, RefId(c, referrals[c][i].id)) = 1

\* C2 as stated: once candidate c has been settled, every later verifyAndSettle(c)
\* made while c is a member ends as no_op at the pending-scoped lookup and changes
\* neither the User ledger, nor the Earnings records, nor the Referral.
C2_LaterCallIsNoOp ==
    [][\A c \in Candidates :
          (Settled(c) /\ member[c] /\ Verify(c)) =>
              /\ result' = "no_pending"
              /\ UNCHANGED <<users, earnings, referrals>>]_vars

\* C2 amended: once candidate c has been settled, every later verifyAndSettle(c)
\* leaves all balances and the Earnings records unchanged.  It is a no_op that
\* leaves the Referral untouched (at the membership query when c is not a member,
\* at the pending-scoped lookup otherwise) unless the pre-existing-membership
\* condition holds, and then it is rejected as a rejoin.
C2_LaterCallNeverPays ==
    [][\A c \in Candidates :
          (Settled(c) /\ Verify(c)) =>
              /\ UNCHANGED <<users, earnings>>
              /\ ~member[c] => (result' = "not_member" /\ UNCHANGED referrals)
              /\ (member[c] /\ ~RejoinCondition(c)) =>
                     (result' = "no_pending" /\ UNCHANGED referrals)
              /\ RejoinCondition(c) => result' = "rejoin_detected"]_vars

\* C2 witness: a verify call after the settlement has ended at the pending lookup.
C2_Witness ==
    /\ result = "no_pending"
    /\ Settled(3)
    /\ referrals[3][1].status = "verified"

\* C3: under any interleaving of concurrent verifyAndSettle calls for the same
\* candidate, a Referral is settled at most once: at most one Earnings record
\* references it and its referrer holds one reward for it.
C3_SettledAtMostOnce ==
    \A c \in Accts : \A i \in 1..Len(referrals[c]) :
        LET row == referrals[c][i] IN
        /\ EarningsFor(earnings, RefId(c, row.id)) <= 1
        /\ Len(users[row.referrer_id]) > 0 =>
               users[row.referrer_id][1].balance <=
                   REFERRAL_REWARD * Cardinality(ReferralsOf(row.referrer_id))

\* C4 as stated, for a Referral that was verified and paid: a verifyAndSettle for
\* its candidate, made while the candidate is a member, always turns the Referral
\* into rejoined with rejoin_count one higher, and adds no Earnings record.
C4_VerifiedAlwaysRejoins ==
    [][\A c \in Candidates :
          (/\ Len(referrals[c]) > 0
           /\ referrals[c][1].status = "verified"
           /\ Settled(c)
           /\ member[c]
           /\ Verify(c)) =>
              /\ referrals'[c][1].status = "rejoined"
              /\ referrals'[c][1].rejoin_count = referrals[c][1].rejoin_count + 1
              /\ earnings' = earnings]_vars

\* C4 amended: such a call turns the verified Referral into rejoined, with
\* rejoin_count one higher and last_rejoin_date stamped, exactly when the
\* pre-existing-membership condition holds (rejoin_count > 0, or the Referral or
\* the candidate's User record more than one hour old); otherwise the Referral
\* stays as it is.  In both cases no Earnings record is added.
C4_VerifiedRejoinsWhenExisting ==
    [][\A c \in Candidates :
          (/\ Len(referrals[c]) > 0
           /\ referrals[c][1].status = "verified"
           /\ member[c]
           /\ Verify(c)) =>
              /\ earnings' = earnings
              /\ RejoinCondition(c) =>
                    referrals'[c] = <<[referrals[c][1] EXCEPT
                                          !.status = "rejoined",
                                          !.rejoin_count = @ + 1,
                                          !.last_rejoin_date = now]>>
              /\ ~RejoinCondition(c) => referrals' = referrals]_vars

\* C4 witness: a settled Referral has been turned into rejoined, 0 to 1.
C4_Witness ==
    /\ result = "rejoin_detected"
    /\ Len(referrals[3]) > 0
    /\ referrals[3][1].status = "rejoined"
    /\ referrals[3][1].rejoin_count = 1
    /\ referrals[3][1].reward_given

\* C5: open(A, A, code) is rejected as a self-referral, creates no Referral and
\* leaves every existing Referral unchanged, for every account and ledger state.
C5_NoSelfReferral ==
    [][\A a \in Accts, ctx \in BOOLEAN :
          Open(a, a, ctx) =>
              /\ result' = "self_referral"
              /\ UNCHANGED <<referrals, users, earnings>>]_vars

\* C5 witness: the candidate that already has a Referral tried to refer itself.
C5_Witness ==
    /\ result = "self_referral"
    /\ Len(referrals[3]) > 0
    /\ referrals[3][1].rejoin_count > 0

\* At most one Referral per candidate.
OneReferralPerCandidate == \A c \in Accts : Len(referrals[c]) <= 1

\* C6 as stated: at most one Referral per candidate, and once it exists every
\* open for the candidate by a different referrer is rejected as
\* already_referred_by_other and changes no Referral.
C6_OtherReferrerRejected ==
    /\ []OneReferralPerCandidate
    /\ [][\A p \in OpenPairs, ctx \in BOOLEAN :
             (/\ Len(referrals[p[2]]) > 0
              /\ \A i \in 1..Len(referrals[p[2]]) :
                    referrals[p[2]][i].referrer_id # p[1]
              /\ Open(p[1], p[2], ctx)) =>
                 /\ result' = "already_referred_by_other"
                 /\ UNCHANGED referrals]_vars

\* C6 amended: the same, for a different referrer other than the candidate
\* itself (whose open is rejected as a self-referral by the first guard).
C6_OtherReferrerRejectedUnlessSelf ==
    /\ []OneReferralPerCandidate
    /\ [][\A p \in OpenPairs, ctx \in BOOLEAN :
             (/\ Len(referrals[p[2]]) > 0
              /\ \A i \in 1..Len(referrals[p[2]]) :
                    referrals[p[2]][i].referrer_id # p[1]
              /\ p[1] # p[2]
              /\ Open(p[1], p[2], ctx)) =>
                 /\ result' = "already_referred_by_other"
                 /\ UNCHANGED referrals]_vars

\* C6 witness: a second referrer has been turned away from a candidate whose
\* Referral is already verified.
C6_Witness ==
    /\ result = "already_referred_by_other"
    /\ Len(referrals[3]) = 1
    /\ referrals[3][1].status = "verified"

\* C7: a referrer turned away by the third guard for candidate c never gets an
\* Earnings record for c, and every later balance credit of that referrer comes
\* with a new Earnings record for a candidate it was not turned away from.
C7_RejectedReferrerEarnsNothing ==
    /\ [](\A p \in rejectedOther :
             /\ \A e \in BagToSet(earnings) :
                   ~(e.user_id = p[1] /\ e.referral_id[1] = p[2])
             /\ \A i \in 1..Len(referrals[p[2]]) :
                   referrals[p[2]][i].referrer_id # p[1])
    /\ [][\A u \in Accts :
             (/\ Len(users[u]) > 0
              /\ Len(users'[u]) > 0
              /\ users'[u][1].balance # users[u][1].balance) =>
                 \E e \in BagToSet(earnings') :
                     /\ CopiesIn(e, earnings') = CopiesIn(e, earnings) + 1
                     /\ e.user_id = u
                     /\ <<u, e.referral_id[1]>> \notin rejectedOther]_vars

\* C7 witness: referrer 2 was turned away from candidate 3, candidate 3 was then
\* settled for referrer 1, and referrer 2 has tried again since.
C7_Witness ==
    /\ <<2, 3>> \in rejectedOther
    /\ Settled(3)
    /\ result = "already_referred_by_other"

\* At most one Referral per ordered (referrer, candidate) pair.
OneReferralPerPair ==
    \A c \in Accts : \A i, j \in 1..Len(referrals[c]) :
        referrals[c][i].referrer_id = referrals[c][j].referrer_id => i = j

\* C8: an open for a pair that already has a Referral is rejected as a
\* duplicate, creates no row, adds exactly one to that row's rejoin_count and
\* stamps last_rejoin_date, each time it is repeated; no pair ever has two rows.
C8_RepeatedOpen ==
    /\ []OneReferralPerPair
    /\ [][\A p \in OpenPairs, ctx \in BOOLEAN :
             \A i \in 1..Len(referrals[p[2]]) :
                (referrals[p[2]][i].referrer_id = p[1] /\ Open(p[1], p[2], ctx)) =>
                    /\ result' = "duplicate_pair"
                    /\ referrals' = [referrals EXCEPT ![p[2]][i] =
                           [@ EXCEPT !.rejoin_count = referrals[p[2]][i].rejoin_count + 1,
                                     !.last_rejoin_date = now]]
                    /\ UNCHANGED <<users, earnings>>]_vars

\* C8 witness: the same open was repeated twice after the one that created the
\* row, the last time at a later hour.
C8_Witness ==
    /\ result = "duplicate_pair"
    /\ Len(referrals[3]) = 1
    /\ referrals[3][1].rejoin_count = 2
    /\ referrals[3][1].last_rejoin_date > referrals[3][1].created_at

\* The Referral a verifyAndSettle for c settles: the first pending one.
PendingIdx(c) ==
    FirstIdx({k \in 1..Len(referrals[c]) : referrals[c][k].status = "pending_group_join"})

\* C9: a verifyAndSettle that settles adds 2 to the referrer's balance and
\* total_earnings and 1 to total_referrals, appends one Earnings record
\* (amount 2, type referral, the referrer, the settled Referral), and changes no
\* other User record.
C9_SettlementEffect ==
    [][\A c \in Candidates :
          (Verify(c) /\ result' = "settled") =>
              LET row == referrals[c][PendingIdx(c)]
                  r   == row.referrer_id
              IN  /\ PendingIdx(c) # 0
                  /\ Len(users'[r]) = Len(users[r])
                  /\ users'[r][1] = [users[r][1] EXCEPT
                                        !.balance = @ + 2,
                                        !.total_earnings = @ + 2,
                                        !.total_referrals = @ + 1]
                  /\ \A u \in Accts \ {r} : users'[u] = users[u]
                  /\ earnings' = earnings (+) SetToBag({
                         [user_id |-> r, amount |-> 2, type |-> "referral",
                          referral_id |-> RefId(c, row.id)]})]_vars

\* C9 witness: a settlement has credited referrer 1 while candidate 3 has a User
\* record of its own.
C9_Witness ==
    /\ result = "settled"
    /\ Len(users[1]) > 0
    /\ users[1][1].balance = 2
    /\ Len(users[3]) > 0

\* C10: when verifyAndSettle does not find the referrer's User record, the call
\* fails and the Referral is still pending_group_join with reward_given = false.
C10_MissingReferrerLeavesPending ==
    [][\A c \in Candidates :
          (Verify(c) /\ result' = "referrer_not_found") =>
              \A i \in 1..Len(referrals'[c]) :
                  referrals[c][i].status = "pending_group_join" =>
                      /\ referrals'[c][i].status = "pending_group_join"
                      /\ ~referrals'[c][i].reward_given]_vars

\* C11: a verifyAndSettle call in which a ledger read or write fails leaves the
\* Referral, the User credit and the Earnings records as they were before the
\* call: the Referral is still pending_group_join with no credit and no Earnings
\* record, so that a retry meets the same pending Referral and settles it once.
C11_FailureLeavesPending ==
    [][\A c \in Candidates, f \in FailPoints :
          (VerifyFail(c, f) /\ result' = "ledger_error") =>
              UNCHANGED <<referrals, users, earnings>>]_vars

\* The first tier of the abuse pattern, spelled out on the state: both User
\* records exist, the referrer's is more than 24 hours old and the candidate's
\* less than 1 hour old.
AbusePattern(r, c) ==
    /\ Len(users[r]) > 0
    /\ Len(users[c]) > 0
    /\ now - users[r][1].created_at > 24
    /\ now - users[c][1].created_at < 1

\* The second tier: referrer more than 7 days old, candidate less than 24 hours.
SuspiciousPattern(r, c) ==
    /\ Len(users[r]) > 0
    /\ Len(users[c]) > 0
    /\ now - users[r][1].created_at > 168
    /\ now - users[c][1].created_at < 24

\* C12: the abuse check reports abusive exactly when both User records exist,
\* the referrer is more than 24 hours old and the candidate less than 1 hour old
\* (both strict), and never on the second tier alone; an open on such a pair
\* creates no Referral, and is rejected as referrer_abuse_pattern when the
\* guards before the abuse guard pass.
C12_AbuseCheck ==
    /\ [][\A p \in OpenPairs :
             ApplyAbuse(p[1], p[2]) =>
                 /\ (result' = "abusive") <=> AbusePattern(p[1], p[2])
                 /\ (SuspiciousPattern(p[1], p[2]) /\ ~AbusePattern(p[1], p[2])) =>
                        result' = "not_abusive"]_vars
    /\ [][\A p \in OpenPairs, ctx \in BOOLEAN :
             (Open(p[1], p[2], ctx) /\ AbusePattern(p[1], p[2])) =>
                 /\ result' # "created"
                 /\ UNCHANGED <<users, earnings>>
                 /\ Len(referrals'[p[2]]) = Len(referrals[p[2]])
                 /\ (/\ p[1] # p[2]
                     /\ Len(referrals[p[2]]) = 0
                     /\ ~(ctx /\ RejoinCondition(p[2]))) =>
                        (result' = "referrer_abuse_pattern" /\ UNCHANGED referrals)]_vars

\* C12 witness: an open by a referrer of more than a day for a candidate of
\* less than an hour, who is not a member, has been rejected by the abuse guard.
C12_Witness ==
    /\ result = "referrer_abuse_pattern"
    /\ ~member[3]
    /\ referrals[3] = <<>>
    /\ now - users[1][1].created_at > 24
    /\ now - users[3][1].created_at < 1

\* The outcome of open(r, c) by the order of the six guards, spelled out on the
\* state: the reason of the first guard that fails, or created.
FirstFailingGuard(r, c, ctx) ==
    IF r = c THEN "self_referral"
    ELSE IF \E i \in 1..Len(referrals[c]) : referrals[c][i].referrer_id = r
    THEN "duplicate_pair"
    ELSE IF Len(referrals[c]) > 0 THEN "already_referred_by_other"
    ELSE IF ctx /\ RejoinCondition(c) THEN "pre_existing_member"
    ELSE IF AbusePattern(r, c) THEN "referrer_abuse_pattern"
    ELSE IF Len(users[c]) > 0 /\ now - users[c][1].created_at > 1
    THEN "stale_candidate_account"
    ELSE "created"

\* C13: open evaluates its guards in the order self-referral, exact-duplicate,
\* prior-referrer, pre-existing-membership (with a membership context only),
\* abuse-pattern, stale-candidate, and stops at the first that fails: its
\* outcome is that guard's reason and its effect that guard's alone.  A repeated
\* open on an existing pair adds one to rejoin_count whatever the later guards
\* would say, and every other rejection changes nothing.
C13_GuardOrder ==
    [][\A p \in OpenPairs, ctx \in BOOLEAN :
          Open(p[1], p[2], ctx) =>
              /\ result' = FirstFailingGuard(p[1], p[2], ctx)
              /\ UNCHANGED <<users, earnings>>
              /\ result' = "duplicate_pair" =>
                    \E i \in 1..Len(referrals[p[2]]) :
                        /\ referrals[p[2]][i].referrer_id = p[1]
                        /\ referrals' = [referrals EXCEPT ![p[2]][i] =
                               [@ EXCEPT !.rejoin_count = referrals[p[2]][i].rejoin_count + 1,
                                         !.last_rejoin_date = now]]
              /\ result' \notin {"duplicate_pair", "created"} => UNCHANGED referrals]_vars

\* C13 witness: a repeated open has been counted as a duplicate for a candidate
\* who is also a pre-existing member with a stale User record.
C13_Witness ==
    /\ result = "duplicate_pair"
    /\ referrals[3][1].rejoin_count > 0
    /\ referrals[3][1].last_rejoin_date = now
    /\ RejoinCondition(3)
    /\ Len(users[3]) > 0
    /\ now - users[3][1].created_at > 1

\* C14: when every guard passes, open reports created and adds exactly one
\* Referral, with the given referrer_id and referred_id, status
\* pending_group_join, rejoin_count 0, reward_given and group_join_verified
\* false; no existing Referral, User or Earnings record is changed.
C14_CreatedRow ==
    [][\A p \in OpenPairs, ctx \in BOOLEAN :
          (Open(p[1], p[2], ctx) /\ FirstFailingGuard(p[1], p[2], ctx) = "created") =>
              /\ result' = "created"
              /\ Len(referrals'[p[2]]) = Len(referrals[p[2]]) + 1
              /\ \E i \in 1..Len(referrals'[p[2]]) :
                    LET row == referrals'[p[2]][i] IN
                    /\ row.referrer_id = p[1]
                    /\ row.referred_id = p[2]
                    /\ row.status = "pending_group_join"
                    /\ row.rejoin_count = 0
                    /\ ~row.reward_given
                    /\ ~row.group_join_verified
                    /\ row.created_at = now
                    /\ \A j \in 1..Len(referrals[p[2]]) :
                          referrals'[p[2]][IF j < i THEN j ELSE j + 1] = referrals[p[2]][j]
              /\ \A a \in Accts \ {p[2]} : referrals'[a] = referrals[a]
              /\ UNCHANGED <<users, earnings>>]_vars

\* C14 witness: a Referral for candidate 3 has been created next to the
\* Referral of another pair, while both User records exist.
C14_Witness ==
    /\ result = "created"
    /\ Len(referrals[3]) = 1
    /\ referrals[3][1].created_at = now
    /\ Len(referrals[2]) = 1
    /\ Len(users[1]) > 0
    /\ Len(users[3]) > 0

\* C15: every verifyAndSettle call that ends as no_op, because the membership
\* oracle reports not-a-member or fails at the first query, or because no
\* Referral in pending_group_join exists for the candidate, leaves the Referral
\* ledger, the User ledger and the Earnings records exactly as they were.
C15_NoOpFrame ==
    [][\A c \in Candidates :
          (/\ result' \in {"not_member", "no_pending"}
           /\ Verify(c) \/ \E f \in FailPoints : VerifyFail(c, f)) =>
              UNCHANGED <<referrals, users, earnings>>]_vars

\* C15 witness: the first membership query of a verify call failed while the
\* candidate was a member with a pending Referral, and the call ended as no_op.
C15_Witness ==
    /\ result = "not_member"
    /\ member[3]
    /\ Len(referrals[3]) > 0
    /\ referrals[3][1].status = "pending_group_join"
    /\ Len(users[1]) > 0

\* The value of the pre-existing-membership check for candidate c, clause by
\* clause, on the state.
WasExistingMember(c) ==
    IF ~member[c] THEN FALSE
    ELSE IF \E i \in 1..Len(referrals[c]) : referrals[c][i].rejoin_count > 0 THEN TRUE
    ELSE IF \E i \in 1..Len(referrals[c]) : now - referrals[c][i].created_at > 1 THEN TRUE
    ELSE IF Len(users[c]) > 0 /\ now - users[c][1].created_at > 1 THEN TRUE
    ELSE FALSE

C17_RejoinDetection ==
    [][\A c \in Candidates :
          ApplyDetect(c) =>
              /\ UNCHANGED <<users, earnings>>
              /\ ~WasExistingMember(c) =>
                    (result' = "not_rejoin" /\ UNCHANGED referrals)
              /\ WasExistingMember(c) =>
                    /\ result' = "rejoin"
                    /\ IF Len(referrals[c]) > 0 /\ referrals[c][1].status = "verified"
                       THEN referrals' = [referrals EXCEPT ![c][1] =
                                [@ EXCEPT !.status = "rejoined",
                                          !.rejoin_count = referrals[c][1].rejoin_count + 1,
                                          !.last_rejoin_date = now]]
                       ELSE UNCHANGED referrals]_vars

\* C17 witness: the detection reported a rejoin for a candidate whose Referral
\* is still pending, and left it as it was.
C17_Witness ==
    /\ result = "rejoin"
    /\ Len(referrals[3]) > 0
    /\ referrals[3][1].status = "pending_group_join"
    /\ referrals[3][1].rejoin_count = 0
    /\ referrals[3][1].last_rejoin_date = None

\* C18: across any sequence and interleaving of open and verifyAndSettle calls,
\* no Referral is ever removed and the rejoin_count of each Referral never
\* decreases from one state to the next.
C18_HistoryKept ==
    [][\A c \in Accts : \A i \in 1..Len(referrals[c]) :
          \E j \in 1..Len(referrals'[c]) :
              /\ referrals'[c][j].id = referrals[c][i].id
              /\ referrals'[c][j].referrer_id = referrals[c][i].referrer_id
              /\ referrals'[c][j].created_at = referrals[c][i].created_at
              /\ referrals'[c][j].rejoin_count >= referrals[c][i].rejoin_count]_vars

\* C18 witness: a Referral counted by a repeated open and then again by rejoin
\* detection.
C18_Witness ==
    /\ Len(referrals[3]) = 1
    /\ referrals[3][1].status = "rejoined"
    /\ referrals[3][1].rejoin_count = 2
    /\ result = "rejoin_detected"

\* The status changes a Referral may go through.
AllowedTransitions ==
    {<<"pending_group_join", "verified">>,
     <<"pending_group_join", "existing_member_no_reward">>,
     <<"verified", "rejoined">>}

\* C19: a Referral is created as pending_group_join and its status only ever
\* goes from pending_group_join to verified or to existing_member_no_reward, and
\* from verified to rejoined; rejoined and existing_member_no_reward are final
\* and no status returns to pending_group_join.
C19_StatusTransitions ==
    [][\A c \in Accts : \A j \in 1..Len(referrals'[c]) :
          LET new == referrals'[c][j]
              i   == IdxOfId(referrals[c], new.id)
          IN  IF i = 0
              THEN new.status = "pending_group_join"
              ELSE \/ new.status = referrals[c][i].status
                   \/ <<referrals[c][i].status, new.status>> \in AllowedTransitions]_vars

\* C20 as stated: in every reachable state, every Referral with
\* reward_given = true has status = verified.
C20_RewardGivenIsVerified ==
    \A c \in Accts : \A i \in 1..Len(referrals[c]) :
        referrals[c][i].reward_given => referrals[c][i].status = "verified"

\* C20 amended: in every reachable state, every Referral with
\* reward_given = true has status verified or rejoined (rejoin detection turns a
\* verified Referral into rejoined and leaves reward_given as it is).
C20_RewardGivenIsVerifiedOrRejoined ==
    \A c \in Accts : \A i \in 1..Len(referrals[c]) :
        referrals[c][i].reward_given =>
            referrals[c][i].status \in {"verified", "rejoined"}

\* C20 witness: a Referral that was settled once and then marked as rejoined
\* still has reward_given = true.
C20_Witness ==
    /\ Len(referrals[3]) = 1
    /\ referrals[3][1].status = "rejoined"
    /\ referrals[3][1].reward_given
    /\ EarningsFor(earnings, RefId(3, referrals[3][1].id)) = 1

\* C21: for every User record, total_earnings and total_referrals never decrease
\* from one state to the next, under any sequence and interleaving of start,
\* open and verifyAndSettle events; no record disappears.
C21_CountersNeverDecrease ==
    [][\A a \in Accts :
          /\ Len(users'[a]) >= Len(users[a])
          /\ \A i \in 1..Len(users[a]) :
                /\ users'[a][i].total_earnings >= users[a][i].total_earnings
                /\ users'[a][i].total_referrals >= users[a][i].total_referrals]_vars

\* C21 witness: a referrer that was credited once, after later events for the
\* same candidate (a rejoin was detected).
C21_Witness ==
    /\ Len(users[1]) > 0
    /\ users[1][1].total_earnings = 2
    /\ users[1][1].total_referrals = 1
    /\ Len(referrals[3]) > 0
    /\ referrals[3][1].status = "rejoined"
    /\ now > users[1][1].created_at

\* C23: every User record has referral_code equal to "CP" followed by its
\* account id, so two records of different accounts never share a code, and no
\* event changes the referral_code of a record.
C23_ReferralCode ==
    /\ [](\A a \in Accts : \A i \in 1..Len(users[a]) :
             LET code == users[a][i].referral_code IN
             /\ Len(code) >= 3
             /\ SubSeq(code, 1, 2) = "CP"
             /\ SubSeq(code, 3, Len(code)) = ToString(users[a][i].telegram_id)
             /\ users[a][i].telegram_id = a)
    /\ [](\A a, b \in Accts : \A i \in 1..Len(users[a]), j \in 1..Len(users[b]) :
             a # b => users[a][i].referral_code # users[b][j].referral_code)
    /\ [][\A a \in Accts : \A i \in 1..Len(users[a]) :
             /\ Len(users'[a]) >= i
             /\ users'[a][i].referral_code = users[a][i].referral_code]_vars

\* C23 witness: two accounts have their records, with codes CP1 and CP3, and the
\* first has been credited since.
C23_Witness ==
    /\ Len(users[1]) > 0
    /\ Len(users[3]) > 0
    /\ users[1][1].referral_code = "CP1"
    /\ users[3][1].referral_code = "CP3"
    /\ users[1][1].balance = 2

\* What an open call returns; a step that ends with one of these is an open.
OpenResults ==
    {"self_referral", "duplicate_pair", "already_referred_by_other",
     "pre_existing_member", "referrer_abuse_pattern",
     "stale_candidate_account", "created"}

\* C27: open never changes any User's balance, total_earnings or
\* total_referrals and never creates an Earnings record, whatever its outcome;
\* an open rejected by a guard other than the exact-duplicate guard leaves the
\* Referral ledger unchanged as well.
C27_OpenFrame ==
    [][result' \in OpenResults =>
          /\ earnings' = earnings
          /\ \A a \in Accts :
                /\ Len(users'[a]) = Len(users[a])
                /\ \A i \in 1..Len(users[a]) :
                      /\ users'[a][i].balance = users[a][i].balance
                      /\ users'[a][i].total_earnings = users[a][i].total_earnings
                      /\ users'[a][i].total_referrals = users[a][i].total_referrals
          /\ result' \notin {"duplicate_pair", "created"} => referrals' = referrals]_vars

\* C27 witness: an open was rejected by the pre-existing-membership guard while
\* the referrer has a User record.
C27_Witness ==
    /\ result = "pre_existing_member"
    /\ Len(users[1]) > 0
    /\ users[1][1].balance = 0
    /\ referrals[3] = <<>>

\* C30: when the oracle answers consistently within one call, verifyAndSettle
\* settles a pending Referral only if at call time the candidate is a member,
\* the Referral's rejoin_count is 0, the Referral is at most 1 hour old and the
\* candidate's User record is absent or at most 1 hour old.  So a call for a
\* pending Referral whose open was repeated, or that is more than 1 hour old,
\* leaves it pending and pays nothing, and so does every later call.
C30_SettlesOnlyFresh ==
    [][\A c \in Candidates :
          LET i == PendingIdx(c) IN
          /\ (Verify(c) /\ result' = "settled") =>
                /\ member[c]
                /\ i # 0
                /\ referrals[c][i].rejoin_count = 0
                /\ now - referrals[c][i].created_at <= 1
                /\ Len(users[c]) = 0 \/ now - users[c][1].created_at <= 1
          /\ (/\ Verify(c)
              /\ i # 0
              /\ \/ referrals[c][i].rejoin_count > 0
                 \/ now - referrals[c][i].created_at > 1) =>
                /\ UNCHANGED <<users, earnings>>
                /\ referrals'[c][i].status = "pending_group_join"
                /\ referrals'[c][i].rejoin_count >= referrals[c][i].rejoin_count]_vars

\* C30 witness: a verify call for a member whose pending Referral was opened
\* twice within the hour has been rejected, and the Referral is still pending.
C30_Witness ==
    /\ result = "rejoin_detected"
    /\ member[3]
    /\ Len(referrals[3]) = 1
    /\ referrals[3][1].status = "pending_group_join"
    /\ referrals[3][1].rejoin_count = 1
    /\ now - referrals[3][1].created_at <= 1
    /\ Len(users[1]) > 0

\* C24: when verifyAndSettle has found a pending Referral and the re-check of
\* pre-existing membership is true, the Referral moves to
\* existing_member_no_reward with group_join_verified = true and
\* reward_given = false, the call is rejected, no User record changes and no
\* Earnings record is created.
C24_ExistingMemberNoReward ==
    [][\A s \in Slots :
          (/\ vcalls[s].pc = "existing"
           /\ WasExistingMember(vcalls[s].cand)
           /\ VExisting(s)) =>
              LET c == vcalls[s].cand
                  i == IdxOfId(referrals[c], vcalls[s].doc)
              IN  /\ result' = "existing_member"
                  /\ i # 0
                  /\ referrals'[c] = [referrals[c] EXCEPT ![i] =
                         [@ EXCEPT !.status = "existing_member_no_reward",
                                   !.group_join_verified = TRUE,
                                   !.reward_given = FALSE]]
                  /\ UNCHANGED <<users, earnings>>]_vars

\* C24 witness: a call was rejected at the re-check and left the Referral in
\* existing_member_no_reward, with nothing paid to the referrer.
C24_Witness ==
    /\ result = "existing_member"
    /\ Len(referrals[3]) = 1
    /\ referrals[3][1].status = "existing_member_no_reward"
    /\ referrals[3][1].group_join_verified
    /\ ~referrals[3][1].reward_given
    /\ earnings = EmptyBag
    /\ Len(users[1]) > 0
    /\ users[1][1].balance = 0

\* What a verify call returns.
VerifyResults ==
    {"not_member", "rejoin_detected", "no_pending", "existing_member",
     "referrer_not_found", "settled"}

C28_CheckFailureIsConservative ==
    [][/\ \A p \in ConcPairs, ctx \in BOOLEAN :
             /\ (OpenFail(p[1], p[2], ctx, "abuse_check") /\ AbusePattern(p[1], p[2]))
                    => Len(referrals'[p[2]]) = Len(referrals[p[2]])
             /\ (OpenFail(p[1], p[2], ctx, "existing_check") /\ ctx
                     /\ WasExistingMember(p[2]))
                    => Len(referrals'[p[2]]) = Len(referrals[p[2]])
       /\ \A c \in Candidates, f \in CheckFailPoints :
             (VerifyFail(c, f) /\ WasExistingMember(c))
                    => UNCHANGED <<users, earnings>>]_vars

\* C22: a start event for an account with no User record creates one with
\* balance 0, total_earnings 0, total_referrals 0 and created_at = now; a start
\* event for an account that has a record leaves that record's balance,
\* total_earnings, total_referrals, referral_code and created_at as they were
\* and creates no second record.
C22_StartCreatesOrKeeps ==
    [][\A e \in StartEvents :
          StartCommand(e[1], e[2]) =>
              LET a == e[1] IN
              IF Len(users[a]) = 0
              THEN /\ Len(users'[a]) = 1
                   /\ users'[a][1].balance = 0
                   /\ users'[a][1].total_earnings = 0
                   /\ users'[a][1].total_referrals = 0
                   /\ users'[a][1].created_at = now
              ELSE /\ Len(users'[a]) = Len(users[a])
                   /\ \A i \in 1..Len(users[a]) :
                         /\ users'[a][i].balance = users[a][i].balance
                         /\ users'[a][i].total_earnings = users[a][i].total_earnings
                         /\ users'[a][i].total_referrals = users[a][i].total_referrals
                         /\ users'[a][i].referral_code = users[a][i].referral_code
                         /\ users'[a][i].created_at = users[a][i].created_at]_vars

\* C22 witness: account 3 sent a start event with a link after its first one
\* (its Referral is younger than its User record), and account 1, which has
\* been credited, still has one record.
C22_Witness ==
    /\ Len(users[3]) = 1
    /\ Len(referrals[3]) > 0
    /\ referrals[3][1].created_at > users[3][1].created_at
    /\ Len(users[1]) = 1
    /\ users[1][1].balance = REFERRAL_REWARD

\* C29: a candidate who is a member of the group when the start event opens
\* the referral, and for whom no Referral exists yet, is rejected as
\* pre_existing_member: the event creates no Referral and pays no reward, also
\* when the candidate's User record was created by this same event.
C29_MemberAtOpenIsRejected ==
    [][\A e \in StartEvents :
          LET a == e[1]
              referrer == ResolveReferrer(create_or_update_user(users, a, now), e[2])
          IN  (/\ StartCommand(a, e[2])
               /\ ValidCodeFormat(e[2])
               /\ referrer # NoReferrer
               /\ referrer # a
               /\ member[a]
               /\ referrals[a] = <<>>) =>
                  /\ result' = "pre_existing_member"
                  /\ referrals' = referrals
                  /\ earnings' = earnings
                  /\ \A b \in Accts \ {a} : users'[b] = users[b]]_vars

\* C25: under any interleaving of concurrent open calls that name the same
\* candidate, from the same referrer or from different referrers, at most one
\* Referral exists per ordered (referrer_id, referred_id) pair and at most one
\* Referral exists for the candidate.
C25_OneRowUnderInterleaving ==
    /\ \A c \in Accts : \A i, j \in 1..Len(referrals[c]) :
          referrals[c][i].referrer_id = referrals[c][j].referrer_id => i = j
    /\ \A c \in Accts : Len(referrals[c]) <= 1

\* What makes the pre-existing-membership check true for a member, and stays
\* true once it is: a Referral of the candidate with rejoin_count > 0 or more
\* than one hour old, or a User record more than one hour old.
StickyExisting(c) ==
    \/ \E i \in 1..Len(referrals[c]) :
          \/ referrals[c][i].rejoin_count > 0
          \/ now - referrals[c][i].created_at > HOUR
    \/ Len(users[c]) > 0 /\ now - users[c][1].created_at > HOUR

\* C31: when every verifyAndSettle call runs from start to end with the clock
\* and the oracle unchanged during the call, no Referral ever has status
\* existing_member_no_reward: a call in which the re-check would be true is
\* ended by rejoin detection, and a pending Referral of such a candidate stays
\* in pending_group_join at every later step.
C31_NeverExistingMemberWhenAtomic ==
    /\ [](\A c \in Accts : \A i \in 1..Len(referrals[c]) :
             referrals[c][i].status # "existing_member_no_reward")
    /\ [][\A c \in Candidates :
             (Verify(c) /\ WasExistingMember(c)) => result' = "rejoin_detected"]_vars
    /\ [][\A c \in Accts : \A i \in 1..Len(referrals[c]) :
             (referrals[c][i].status = "pending_group_join" /\ StickyExisting(c)) =>
                 /\ Len(referrals'[c]) = Len(referrals[c])
                 /\ referrals'[c][i].status = "pending_group_join"]_vars

\* C31 witness: a verify call for a member whose pending Referral has been
\* opened twice was ended by rejoin detection, the Referral still pending.
C31_Witness ==
    /\ result = "rejoin_detected"
    /\ member[3]
    /\ Len(referrals[3]) = 1
    /\ referrals[3][1].status = "pending_group_join"
    /\ referrals[3][1].rejoin_count > 0

\* Number of Earnings records whose user_id is a.
EarningsOfUser(a) == SumCopies({e \in BagToSet(earnings) : e.user_id = a}, earnings)

\* C32: in every state reached by start, open and verifyAndSettle events run
\* one at a time without failures, every User record has balance =
\* total_earnings = 2 x total_referrals = 2 x the number of Earnings records
\* whose user_id is that User.
C32_BalanceEquation ==
    \A a \in Accts : \A i \in 1..Len(users[a]) :
        /\ users[a][i].balance = users[a][i].total_earnings
        /\ users[a][i].total_earnings = REFERRAL_REWARD * users[a][i].total_referrals
        /\ users[a][i].total_referrals = EarningsOfUser(a)

\* C32 witness: referrer 1 has been credited once and holds one Earnings record.
C32_Witness ==
    /\ Len(users[1]) = 1
    /\ users[1][1].total_referrals = 1
    /\ EarningsOfUser(1) = 1
    /\ result = "settled"

\* The Referrals of referrer r that have been settled: the settlement reached
\* its Earnings record.
SettledOf(r) == {x \in ReferralsOf(r) : EarningsFor(earnings, x) > 0}

\* C33: when verify calls for different candidates of the same referrer
\* interleave, no credit is lost: once every call has completed the referrer's
\* balance and total_earnings are 2 x the number of its settled Referrals and
\* total_referrals is that number.
C33_NoCreditLost ==
    (NoCallInFlight /\ Len(users[1]) > 0) =>
        /\ users[1][1].balance = REFERRAL_REWARD * Cardinality(SettledOf(1))
        /\ users[1][1].total_earnings = REFERRAL_REWARD * Cardinality(SettledOf(1))
        /\ users[1][1].total_referrals = Cardinality(SettledOf(1))

\* C33 witness: the call of one candidate has just settled and credited the
\* referrer while the call of the other candidate, begun earlier, waits for
\* its last membership answer with its pending Referral in hand.
C33_Witness ==
    /\ result = "settled"
    /\ \E s \in Slots : vcalls[s].pc = "existing" /\ vcalls[s].referrer = 1
    /\ Cardinality(SettledOf(1)) = 1
    /\ users[1][1].balance = REFERRAL_REWARD

\* C34: when start events for the same account overlap, at most one User
\* record exists for the account, so a lookup by account id has one record to
\* read and to credit.
C34_OneUserRecord == \A a \in Accts : Len(users[a]) <= 1

\* C34 witness: two start events of account 3 are in progress at once and the
\* account has its record.
C34_Witness ==
    /\ \A s \in Slots : vcalls[s].pc = "start_member" /\ vcalls[s].cand = 3
    /\ Len(users[3]) = 1

\* now minus the creation time of account a's User record.
UserAge(a) == now - users[a][1].created_at

\* C35: open creates a Referral only if the candidate's User record is absent
\* or at most 1 hour old; when the referrer's and the candidate's records both
\* exist it also requires referrer_age <= 24 h or candidate_age >= 1 h, so that
\* then candidate_age <= 1 h and (referrer_age <= 24 h or candidate_age is
\* exactly 1 h).
C35_CreatedOnlyForFreshCandidate ==
    [][\A c \in Accts :
          (result' = "created" /\ Len(referrals'[c]) = Len(referrals[c]) + 1) =>
              \E i \in 1..Len(referrals'[c]) :
                  LET r == referrals'[c][i].referrer_id IN
                  /\ referrals'[c][i].id = Len(referrals[c]) + 1
                  /\ Len(users[c]) = 0 \/ UserAge(c) <= HOUR
                  /\ (Len(users[c]) > 0 /\ Len(users[r]) > 0) =>
                        /\ UserAge(r) <= DAY \/ UserAge(c) >= HOUR
                        /\ UserAge(c) <= HOUR
                        /\ UserAge(r) <= DAY \/ UserAge(c) = HOUR]_vars

\* C35 witness: a Referral was created for a candidate whose User record is
\* exactly 1 hour old by a referrer whose record is more than 24 hours old.
C35_Witness ==
    /\ result = "created"
    /\ Len(referrals[3]) = 1
    /\ referrals[3][1].referrer_id = 1
    /\ Len(users[3]) > 0 /\ UserAge(3) = HOUR
    /\ Len(users[1]) > 0 /\ UserAge(1) > DAY

\* C36: the start event writes the candidate's User record before it evaluates
\* open and evaluates open before verifyAndSettle; so in a start event that
\* creates the candidate's User record, a referrer whose record is more than
\* 24 hours old obtains no Referral for the candidate and no reward.
C36_OldReferrerGetsNothingAtFirstStart ==
    [][\A e \in StartEvents :
          LET a == e[1]
              referrer == ResolveReferrer(create_or_update_user(users, a, now), e[2])
          IN  (/\ StartCommand(a, e[2])
               /\ Len(users[a]) = 0
               /\ ValidCodeFormat(e[2])
               /\ referrer # NoReferrer
               /\ referrer # a
               /\ Len(users[referrer]) > 0
               /\ UserAge(referrer) > DAY) =>
                  /\ Len(users'[a]) = 1
                  /\ referrals'[a] = referrals[a]
                  /\ \A i \in 1..Len(referrals'[a]) : referrals'[a][i].referrer_id # referrer
                  /\ users'[referrer] = users[referrer]
                  /\ earnings' = earnings]_vars

\* C36 witness: candidate 3, a group member, sent its first start event with
\* the code of referrer 1, whose record is more than 24 hours old; the event
\* stored the candidate's record and open ended at the abuse guard.
C36_Witness ==
    /\ result = "referrer_abuse_pattern"
    /\ member[3]
    /\ Len(users[3]) = 1 /\ UserAge(3) = 0
    /\ Len(users[1]) = 1 /\ UserAge(1) > DAY
    /\ referrals[3] = <<>>

\* C37: without a database handle, open and verifyAndSettle return a
\* non-success result at once, before any membership query, and create or
\* change no Referral, User or Earnings record.
C37_OfflineCallsDoNothing ==
    [][/\ \A p \in OpenPairs, ctx \in BOOLEAN :
             OpenOffline(p[1], p[2], ctx) =>
                 (result' = "offline" /\ UNCHANGED <<users, referrals, earnings>>)
       /\ \A c \in Candidates :
             VerifyOffline(c) =>
                 (result' = "offline" /\ UNCHANGED <<users, referrals, earnings>>)]_vars

\* C37 witness: a call without a handle returned while candidate 3 was a
\* member with a fresh pending Referral and referrer 1 had its record, so that a
\* verify call with a handle would have settled.
C37_Witness ==
    /\ result = "offline"
    /\ member[3]
    /\ Len(referrals[3]) = 1
    /\ referrals[3][1].status = "pending_group_join"
    /\ referrals[3][1].rejoin_count = 0
    /\ now - referrals[3][1].created_at <= HOUR
    /\ Len(users[1]) > 0
    /\ users[1][1].balance = 0

====
